---- MODULE Spec2Model ----
(***************************************************************************)
(* Model of squid_monitor.py: the health ledger kept by StateManager, the  *)
(* alert policy should_send_alert, the retrying mail dispatcher, one check *)
(* cycle (ServiceMonitor.run_check) and the loop of main().                *)
(*                                                                         *)
(* Encoding of Python values.  A timestamp string produced by              *)
(* datetime.isoformat() is a one-element sequence <<t>> holding the clock  *)
(* reading t; None in a timestamp field is the empty sequence <<>>.  The   *)
(* tri-state last_status (None / True / False) is one of the strings       *)
(* "None", "True", "False".  The clock datetime.now() is the integer       *)
(* variable now; it never runs backwards.                                  *)
(***************************************************************************)
EXTENDS Integers, Sequences, FiniteSets, TLC

\* ------------------------------------------------------------------ bounds
MaxTime == 2        \* last clock reading the model explores
MaxStep == 1        \* largest clock advance between two readings
MaxFailures == 2    \* cap on consecutive_failures
MaxCooldown == 1    \* largest configured alert_cooldown
MaxAttempts == 4    \* largest configured retry_attempts

\* Config defaults of monitoring.retry_attempts and monitoring.retry_delay
retry_attempts == 3
retry_delay == 5

\* Config default of monitoring.check_interval, and the seconds main()
\* sleeps after a cycle that raised
check_interval == 300
recovery_delay == 60

VARIABLES
    state,            \* StateManager.state, the ledger in memory
    file,             \* the content of state_file on disk
    now,              \* the last reading of datetime.now()
    pc,               \* where main() stands
    once,             \* args.once
    alert_cooldown,   \* config monitoring.alert_cooldown
    dry_run,          \* config features.dry_run
    op,               \* the operation that produced this state
    last,             \* what the last check cycle (or policy call) did
    outage,           \* failure alerts delivered during the ongoing outage
    synced,           \* the last cycle's save succeeded, store untouched since
    report            \* inputs and outcome of an operation run by itself

vars == <<state, file, now, pc, once, alert_cooldown, dry_run,
          op, last, outage, synced, report>>

None == <<>>

Min(a, b) == IF a < b THEN a ELSE b

\* ------------------------------------------------------- timestamps, JSON
\* datetime.isoformat(): the text of a clock reading.
isoformat(t) == <<t>>

\* datetime.fromisoformat(): the clock reading of a text.
fromisoformat(s) == s[1]

\* bool -> the value stored in last_status
StatusOf(b) == IF b THEN "True" ELSE "False"

\* json.dump of one value: None -> null, str -> string, bool -> true/false,
\* int -> number.  A JSON value is [t |-> token, v |-> payload].
JsonOfStr(s) == IF s = None THEN [t |-> "null", v |-> <<>>]
                ELSE [t |-> "string", v |-> s]

\* json.dump writing every falsy value as null
JsonOfBool_falsy(b) == IF b = "True" THEN [t |-> "true", v |-> <<>>]
                       ELSE [t |-> "null", v |-> <<>>]

JsonOfBool(b) == IF b = "None" THEN [t |-> "null", v |-> <<>>]
                 ELSE IF b = "True" THEN [t |-> "true", v |-> <<>>]
                 ELSE [t |-> "false", v |-> <<>>]

JsonOfInt(n) == [t |-> "number", v |-> <<n>>]

\* json.load of one value
StrOfJson(j) == IF j.t = "null" THEN None ELSE j.v

BoolOfJson(j) == IF j.t = "null" THEN "None"
                 ELSE IF j.t = "true" THEN "True" ELSE "False"

IntOfJson(j) == j.v[1]

\* json.dump(self.state, f)
json_dump(st) ==
    [last_check |-> JsonOfStr(st.last_check),
     last_status |-> JsonOfBool(st.last_status),
     last_alert_time |-> JsonOfStr(st.last_alert_time),
     consecutive_failures |-> JsonOfInt(st.consecutive_failures),
     last_success_time |-> JsonOfStr(st.last_success_time)]

\* json.load losing last_alert_time
json_load_drops_alert(doc) ==
    [last_check |-> StrOfJson(doc.last_check),
     last_status |-> BoolOfJson(doc.last_status),
     last_alert_time |-> None,
     consecutive_failures |-> IntOfJson(doc.consecutive_failures),
     last_success_time |-> StrOfJson(doc.last_success_time)]

\* json.load(f)
json_load(doc) ==
    [last_check |-> StrOfJson(doc.last_check),
     last_status |-> BoolOfJson(doc.last_status),
     last_alert_time |-> StrOfJson(doc.last_alert_time),
     consecutive_failures |-> IntOfJson(doc.consecutive_failures),
     last_success_time |-> StrOfJson(doc.last_success_time)]

\* ---------------------------------------------------------- StateManager
\* The ledger _load_state returns when there is nothing to read.
FreshState ==
    [last_check |-> None,
     last_status |-> "None",
     last_alert_time |-> None,
     consecutive_failures |-> 0,
     last_success_time |-> None]

\* The store: kind is "absent" (no file), "corrupt" (a file json.load
\* rejects), "unreadable" (a file open() rejects), "invalid" (a file
\* json.load accepts that holds none of the ledger's keys, such as {})
\* or "json" (a file holding doc).
AbsentFile == [kind |-> "absent", doc |-> json_dump(FreshState)]

CorruptFile == [kind |-> "corrupt", doc |-> json_dump(FreshState)]

UnreadableFile == [kind |-> "unreadable", doc |-> json_dump(FreshState)]

InvalidFile == [kind |-> "invalid", doc |-> json_dump(FreshState)]

JsonFile(st) == [kind |-> "json", doc |-> json_dump(st)]

\* What json.load returns for an invalid file, kept as self.state: a value
\* on which every lookup of a ledger key raises (KeyError, TypeError).
InvalidState == [FreshState EXCEPT !.last_status = "KeyError"]

IsLedger(st) == st.last_status # "KeyError"

\* StateManager._load_state
load_state(f) ==
    IF f.kind = "json" THEN json_load(f.doc)
    ELSE IF f.kind = "invalid" THEN InvalidState
    ELSE FreshState

\* should_send_alert raising a first failure only from the unknown status
should_send_alert_only_unknown(st, current_status, cooldown_seconds, t) ==
    IF current_status
    THEN st.last_status = "False"
    ELSE IF st.last_status = "None"
         THEN TRUE
         ELSE IF st.last_alert_time # None
              THEN t - fromisoformat(st.last_alert_time) > cooldown_seconds
              ELSE FALSE

\* should_send_alert taking every status but up for a recovery
should_send_alert_not_up(st, current_status, cooldown_seconds, t) ==
    IF current_status
    THEN st.last_status # "True"
    ELSE IF st.last_status = "None" \/ st.last_status = "True"
         THEN TRUE
         ELSE IF st.last_alert_time # None
              THEN t - fromisoformat(st.last_alert_time) > cooldown_seconds
              ELSE FALSE

\* should_send_alert with the cooldown compared by >= instead of >
should_send_alert_inclusive(st, current_status, cooldown_seconds, t) ==
    IF current_status
    THEN st.last_status = "False"
    ELSE IF st.last_status = "None" \/ st.last_status = "True"
         THEN TRUE
         ELSE IF st.last_alert_time # None
              THEN t - fromisoformat(st.last_alert_time) >= cooldown_seconds
              ELSE FALSE

\* should_send_alert raising on every down cycle, cooldown or not
should_send_alert_every_down(st, current_status, cooldown_seconds, t) ==
    IF current_status THEN st.last_status = "False" ELSE TRUE

\* StateManager.should_send_alert; t is the reading of datetime.now()
should_send_alert(st, current_status, cooldown_seconds, t) ==
    IF current_status
    THEN st.last_status = "False"
    ELSE IF st.last_status = "None" \/ st.last_status = "True"
         THEN TRUE
         ELSE IF st.last_alert_time # None
              THEN t - fromisoformat(st.last_alert_time) > cooldown_seconds
              ELSE FALSE

\* update_state recording an alert time on every down cycle
update_state_always_stamps(st, status, alert_sent, tc, ts, ta) ==
    [last_check |-> isoformat(tc),
     last_status |-> StatusOf(status),
     consecutive_failures |->
         IF status THEN 0 ELSE st.consecutive_failures + 1,
     last_success_time |->
         IF status THEN isoformat(ts) ELSE st.last_success_time,
     last_alert_time |->
         IF alert_sent \/ ~status THEN isoformat(ta) ELSE st.last_alert_time]

\* update_state leaving the failure count alone on an up cycle
update_state_keeps_count(st, status, alert_sent, tc, ts, ta) ==
    [last_check |-> isoformat(tc),
     last_status |-> StatusOf(status),
     consecutive_failures |->
         IF status THEN st.consecutive_failures
         ELSE st.consecutive_failures + 1,
     last_success_time |->
         IF status THEN isoformat(ts) ELSE st.last_success_time,
     last_alert_time |->
         IF alert_sent THEN isoformat(ta) ELSE st.last_alert_time]

\* update_state clearing the alert time when no alert was sent on an up cycle
update_state_clears_alert(st, status, alert_sent, tc, ts, ta) ==
    [last_check |-> isoformat(tc),
     last_status |-> StatusOf(status),
     consecutive_failures |->
         IF status THEN 0 ELSE st.consecutive_failures + 1,
     last_success_time |->
         IF status THEN isoformat(ts) ELSE st.last_success_time,
     last_alert_time |->
         IF alert_sent THEN isoformat(ta)
         ELSE IF status THEN None ELSE st.last_alert_time]

\* update_state starting the failure count again at every alert sent
update_state_restarts_count(st, status, alert_sent, tc, ts, ta) ==
    [last_check |-> isoformat(tc),
     last_status |-> StatusOf(status),
     consecutive_failures |->
         IF status THEN 0
         ELSE IF alert_sent THEN 1 ELSE st.consecutive_failures + 1,
     last_success_time |->
         IF status THEN isoformat(ts) ELSE st.last_success_time,
     last_alert_time |->
         IF alert_sent THEN isoformat(ta) ELSE st.last_alert_time]

\* update_state touching the ledger only when an alert was sent
update_state_only_on_alert(st, status, alert_sent, tc, ts, ta) ==
    IF alert_sent
    THEN [last_check |-> isoformat(tc),
          last_status |-> StatusOf(status),
          consecutive_failures |->
              IF status THEN 0 ELSE st.consecutive_failures + 1,
          last_success_time |->
              IF status THEN isoformat(ts) ELSE st.last_success_time,
          last_alert_time |-> isoformat(ta)]
    ELSE st

\* StateManager.update_state up to the save; tc, ts, ta are the readings of
\* datetime.now() for last_check, last_success_time and last_alert_time.
update_state(st, status, alert_sent, tc, ts, ta) ==
    [last_check |-> isoformat(tc),
     last_status |-> StatusOf(status),
     consecutive_failures |->
         IF status THEN 0 ELSE st.consecutive_failures + 1,
     last_success_time |->
         IF status THEN isoformat(ts) ELSE st.last_success_time,
     last_alert_time |->
         IF alert_sent THEN isoformat(ta) ELSE st.last_alert_time]

\* StateManager.save_state: the file after the write.  "ok" the dump is
\* written; "unwritable" open() raises and the file is as before;
\* "truncated" open() emptied the file and the dump then failed.
SaveResults == {"ok", "unwritable", "truncated"}

save_state(st, f, result) ==
    IF result = "ok" THEN JsonFile(st)
    ELSE IF result = "unwritable" THEN f
    ELSE CorruptFile

\* -------------------------------------------------------- ServiceMonitor
\* The for loop of send_email_alert from attempt on; outcomes[i] says
\* whether the i-th SMTP attempt goes through.  acc collects what the
\* loop did: attempts made, failures logged, sleeps taken.
RECURSIVE email_attempts(_, _, _, _)
email_attempts(attempt, attempts, outcomes, acc) ==
    IF attempt >= attempts
    THEN [acc EXCEPT !.sent = FALSE]
    ELSE IF outcomes[attempt + 1]
         THEN [acc EXCEPT !.sent = TRUE, !.tries = @ + 1]
         ELSE email_attempts(attempt + 1, attempts, outcomes,
                  [acc EXCEPT !.tries = @ + 1,
                              !.errors = @ + 1,
                              !.sleeps = IF attempt < attempts - 1
                                         THEN Append(@, retry_delay * (2 ^ attempt))
                                         ELSE @])

\* The retry loop sleeping the same delay after every failed attempt
RECURSIVE email_attempts_flat(_, _, _, _)
email_attempts_flat(attempt, attempts, outcomes, acc) ==
    IF attempt >= attempts
    THEN [acc EXCEPT !.sent = FALSE]
    ELSE IF outcomes[attempt + 1]
         THEN [acc EXCEPT !.sent = TRUE, !.tries = @ + 1]
         ELSE email_attempts_flat(attempt + 1, attempts, outcomes,
                  [acc EXCEPT !.tries = @ + 1,
                              !.errors = @ + 1,
                              !.sleeps = IF attempt < attempts - 1
                                         THEN Append(@, retry_delay)
                                         ELSE @])

\* send_email_alert without the exponential growth of the delay
send_email_alert_flat(dry, attempts, outcomes) ==
    IF dry
    THEN [sent |-> TRUE, tries |-> 0, errors |-> 0, sleeps |-> <<>>]
    ELSE email_attempts_flat(0, attempts, outcomes,
             [sent |-> FALSE, tries |-> 0, errors |-> 0, sleeps |-> <<>>])

\* The retry loop sleeping after the last failed attempt too
RECURSIVE email_attempts_sleeps_last(_, _, _, _)
email_attempts_sleeps_last(attempt, attempts, outcomes, acc) ==
    IF attempt >= attempts
    THEN [acc EXCEPT !.sent = FALSE]
    ELSE IF outcomes[attempt + 1]
         THEN [acc EXCEPT !.sent = TRUE, !.tries = @ + 1]
         ELSE email_attempts_sleeps_last(attempt + 1, attempts, outcomes,
                  [acc EXCEPT !.tries = @ + 1,
                              !.errors = @ + 1,
                              !.sleeps = Append(@, retry_delay * (2 ^ attempt))])

\* send_email_alert without the test that skips the last sleep
send_email_alert_sleeps_last(dry, attempts, outcomes) ==
    IF dry
    THEN [sent |-> TRUE, tries |-> 0, errors |-> 0, sleeps |-> <<>>]
    ELSE email_attempts_sleeps_last(0, attempts, outcomes,
             [sent |-> FALSE, tries |-> 0, errors |-> 0, sleeps |-> <<>>])

\* send_email_alert giving up one attempt before the configured count
send_email_alert_one_short(dry, attempts, outcomes) ==
    IF dry
    THEN [sent |-> TRUE, tries |-> 0, errors |-> 0, sleeps |-> <<>>]
    ELSE email_attempts(0, attempts - 1, outcomes,
             [sent |-> FALSE, tries |-> 0, errors |-> 0, sleeps |-> <<>>])

\* send_email_alert going to the transport in dry-run mode too
send_email_alert_ignores_dry(dry, attempts, outcomes) ==
    email_attempts(0, attempts, outcomes,
        [sent |-> FALSE, tries |-> 0, errors |-> 0, sleeps |-> <<>>])

\* ServiceMonitor.send_email_alert
send_email_alert(dry, attempts, outcomes) ==
    IF dry
    THEN [sent |-> TRUE, tries |-> 0, errors |-> 0, sleeps |-> <<>>]
    ELSE email_attempts(0, attempts, outcomes,
             [sent |-> FALSE, tries |-> 0, errors |-> 0, sleeps |-> <<>>])

\* What the SMTP transport may do over the attempts of one dispatch; when
\* it is not used there is nothing to choose.
Transport(used) ==
    IF used THEN [1..retry_attempts -> BOOLEAN]
    ELSE {[i \in 1..retry_attempts |-> FALSE]}

\* The decision of one cycle, from should_alert and is_recovery of run_check
Decision(should_alert, is_recovery) ==
    IF ~should_alert THEN "Suppressed"
    ELSE IF is_recovery THEN "RaiseRecovery" ELSE "RaiseFailure"

\* is_recovery of run_check
IsRecovery(st, is_active) == is_active /\ st.last_status = "False"

\* Nothing was run by itself.
NoReport == <<>>

NoCycle == [decision |-> "Suppressed", email_sent |-> FALSE, sleep |-> 0]

\* main() giving up on the first cycle that raises, in either mode
AfterCycle_dies(raised, is_once) ==
    IF raised THEN [pc |-> "fatal", sleep |-> 0]
    ELSE IF is_once THEN [pc |-> "exit", sleep |-> 0]
    ELSE [pc |-> "sleep", sleep |-> check_interval]

\* main() after run_check: where it stands and how long it sleeps.  With
\* --once a raise reaches the outer handler ("Fatal error", exit status
\* 1) and a return ends main; in the loop a raise is logged and followed
\* by time.sleep(60), a return by time.sleep(check_interval).
AfterCycle(raised, is_once) ==
    IF is_once
    THEN [pc |-> IF raised THEN "fatal" ELSE "exit", sleep |-> 0]
    ELSE IF raised THEN [pc |-> "recover", sleep |-> recovery_delay]
    ELSE [pc |-> "sleep", sleep |-> check_interval]

\* No failure alert delivered in the ongoing outage; lost tells that a
\* restart replaced the ledger that recorded one by another.  downs counts
\* the down cycles since the last up cycle, for as long as the ledger in
\* memory is the one those cycles updated; reloaded tells that a restart
\* replaced it.  seen is what the last cycle observed ("none" before the
\* first cycle); stale tells that a restart replaced the ledger that
\* cycle left.
NoOutage ==
    [alerts |-> 0, last |-> None, lost |-> FALSE, close |-> FALSE,
     downs |-> 0, reloaded |-> FALSE, seen |-> "none", stale |-> FALSE]

\* The ongoing outage after a cycle that decided at t_decide and recorded
\* an alert at ta: an up cycle ends the outage; a delivered failure alert
\* is counted, with the time the ledger records for it, and close tells
\* whether it came within the cooldown of the previous one.
OutageAfter(o, is_active, decision, email_sent, cooldown, t_decide, ta) ==
    IF is_active THEN [NoOutage EXCEPT !.seen = "up"]
    ELSE IF decision = "RaiseFailure" /\ email_sent
         THEN [o EXCEPT !.alerts = Min(@ + 1, 2),
                        !.last = isoformat(ta),
                        !.close = @ \/ (o.alerts > 0 /\
                            t_decide - fromisoformat(o.last) <= cooldown),
                        !.downs = IF o.reloaded THEN 0 ELSE @ + 1,
                        !.seen = "down",
                        !.stale = FALSE]
         ELSE [o EXCEPT !.downs = IF o.reloaded THEN 0 ELSE @ + 1,
                        !.seen = "down",
                        !.stale = FALSE]

\* ------------------------------------------------------------------ main
Init ==
    /\ file = AbsentFile
    /\ state = load_state(file)
    /\ now = 0
    /\ pc = "check"
    /\ once \in BOOLEAN
    /\ alert_cooldown = MaxCooldown
    /\ dry_run \in BOOLEAN
    /\ op = "init"
    /\ last = NoCycle
    /\ outage = NoOutage
    /\ synced = FALSE
    /\ report = NoReport

\* monitor.run_check() as main() calls it, with what main() does when it
\* returns or raises.
RunCheck ==
    /\ pc = "check"
    /\ \E is_active \in BOOLEAN,
          t_decide \in now..Min(now + MaxStep, MaxTime) :
         LET should_alert == should_send_alert(state, is_active,
                                               alert_cooldown, t_decide)
             is_recovery == IsRecovery(state, is_active)
             decision == Decision(should_alert, is_recovery)
         IN \E outcomes \in Transport(should_alert /\ ~dry_run),
               result \in SaveResults,
               tc \in t_decide..Min(t_decide + MaxStep, MaxTime) :
            \E ts \in tc..Min(t_decide + MaxStep, MaxTime) :
            \E ta \in ts..Min(t_decide + MaxStep, MaxTime) :
              LET email_sent == should_alert /\
                      send_email_alert(dry_run, retry_attempts, outcomes).sent
                  new == update_state(state, is_active, email_sent, tc, ts, ta)
                  raised == result # "ok"
              IN /\ new.consecutive_failures <= MaxFailures
                 /\ state' = new
                 /\ file' = save_state(new, file, result)
                 /\ now' = ta
                 /\ pc' = AfterCycle(raised, once).pc
                 /\ op' = "run_check"
                 /\ last' = [decision |-> decision,
                             email_sent |-> email_sent,
                             sleep |-> AfterCycle(raised, once).sleep]
                 /\ outage' = OutageAfter(outage, is_active, decision,
                                          email_sent, alert_cooldown,
                                          t_decide, ta)
                 /\ synced' = (result = "ok")
    /\ UNCHANGED <<once, alert_cooldown, dry_run, report>>

\* time.sleep(check_interval) or time.sleep(60) returns
WakeUp ==
    /\ pc \in {"sleep", "recover"}
    /\ \E t \in now..Min(now + MaxStep, MaxTime) : now' = t
    /\ pc' = "check"
    /\ op' = "wake"
    /\ last' = NoCycle
    /\ UNCHANGED <<state, file, once, alert_cooldown, dry_run, outage, synced,
                   report>>

\* main() on a KeyboardInterrupt raised where it stands in the loop: in
\* run_check or in time.sleep(check_interval), both inside the try, it is
\* caught, 'Monitor stopped by user' is logged and the loop breaks; in
\* time.sleep(60), inside the except handler, nothing catches it (the
\* outer handler takes Exception only) and it leaves main unhandled.
AfterInterrupt(at) == IF at = "recover" THEN "interrupted" ELSE "stopped"

\* KeyboardInterrupt in continuous mode: while main() sleeps, or in a
\* cycle before it has touched the ledger.
Interrupt ==
    /\ pc \in {"sleep", "recover"} \/ (pc = "check" /\ ~once)
    /\ pc' = AfterInterrupt(pc)
    /\ op' = "interrupt"
    /\ last' = NoCycle
    /\ UNCHANGED <<state, file, now, once, alert_cooldown, dry_run, outage,
                   synced, report>>

\* The monitor is started again between two cycles: StateManager.__init__
\* loads the ledger from the store.
Restart ==
    /\ pc \in {"sleep", "recover", "stopped", "interrupted", "exit", "fatal"}
    /\ state' = load_state(file)
    /\ \E t \in now..Min(now + MaxStep, MaxTime) : now' = t
    /\ pc' = "check"
    /\ op' = "restart"
    /\ last' = NoCycle
    /\ outage' = IF state' = state THEN outage
                 ELSE [outage EXCEPT !.lost = @ \/ outage.alerts > 0,
                                     !.reloaded = TRUE,
                                     !.downs = 0,
                                     !.stale = TRUE]
    /\ UNCHANGED <<file, once, alert_cooldown, dry_run, synced, report>>

\* An operator removes the backing store.
RemoveStore ==
    /\ file.kind # "absent"
    /\ pc \in {"sleep", "recover", "stopped", "interrupted", "exit", "fatal"}
    /\ file' = AbsentFile
    /\ synced' = FALSE
    /\ op' = "remove"
    /\ last' = NoCycle
    /\ UNCHANGED <<state, now, pc, once, alert_cooldown, dry_run, outage,
                   report>>

Next == RunCheck \/ WakeUp \/ Interrupt \/ Restart \/ RemoveStore

Spec == Init /\ [][Next]_vars

\* time.sleep returns: a sleeping loop wakes up unless it is interrupted
\* or the monitor is started again first.
FairSpec == Spec /\ WF_vars(WakeUp)

\* ---------------------------------------------------- the policy alone
\* Every ledger a store can hold, for should_send_alert taken by itself.
Stamps == {None} \cup {isoformat(t) : t \in 0..MaxTime}

Ledgers ==
    [last_check : {None, isoformat(0)},
     last_status : {"None", "True", "False"},
     last_alert_time : Stamps,
     consecutive_failures : 0..MaxFailures,
     last_success_time : {None, isoformat(0)}]

PolicyInit ==
    /\ state \in Ledgers
    /\ file = AbsentFile
    /\ now \in 0..MaxTime
    /\ pc = "policy"
    /\ once = FALSE
    /\ alert_cooldown \in 0..MaxCooldown
    /\ dry_run = FALSE
    /\ op = "init"
    /\ last = NoCycle
    /\ outage = NoOutage
    /\ synced = FALSE
    /\ report = NoReport

\* One call of should_send_alert on the ledger, as run_check makes it,
\* with the decision run_check draws from it.
PolicyDecide ==
    /\ pc = "policy"
    /\ \E current_status \in BOOLEAN :
         /\ last' = [decision |->
                         Decision(should_send_alert(state, current_status,
                                                    alert_cooldown, now),
                                  IsRecovery(state, current_status)),
                     email_sent |-> FALSE,
                     sleep |-> 0]
         /\ op' = IF current_status THEN "policy_up" ELSE "policy_down"
    /\ UNCHANGED <<state, file, now, pc, once, alert_cooldown, dry_run,
                   outage, synced, report>>

PolicyNext == PolicyDecide

PolicySpec == PolicyInit /\ [][PolicyNext]_vars

\* ------------------------------------------------------ one cycle alone
\* check_service_status letting an execution error of systemctl escape
check_service_status_uncaught(probe) ==
    [is_active |-> probe = "active",
     status |-> IF probe = "error" THEN "error: detail" ELSE probe,
     raised |-> probe = "error"]

\* ServiceMonitor.check_service_status; probe is what running systemctl
\* comes to: "active", "inactive" (a non-zero return code), "timeout"
\* (TimeoutExpired) or "error" (any other exception).
check_service_status(probe) ==
    [is_active |-> probe = "active",
     status |-> IF probe = "error" THEN "error: detail" ELSE probe,
     raised |-> FALSE]

Probes == {"active", "inactive", "timeout", "error"}

\* ServiceMonitor.send_webhook_alert: what it logs; hook is what the POST
\* comes to: "ok" (status 200), "non200" or "error" (an exception).  It
\* returns nothing and raises nothing.
send_webhook_alert(dry, hook) ==
    IF dry THEN "dry_run"
    ELSE IF hook = "ok" THEN "sent"
    ELSE IF hook = "non200" THEN "failed"
    ELSE "error"

Hooks == {"ok", "non200", "error"}

\* alert_sent counting a webhook that went through as a delivery
AlertSent_either(email_sent, webhook) == email_sent \/ webhook = "sent"

\* The alert_sent flag run_check passes to update_state after a dispatch
AlertSent(email_sent, webhook) == email_sent

NoEmail == [sent |-> FALSE, tries |-> 0, errors |-> 0, sleeps |-> <<>>]

\* create_alert_content composing every alert as a failure alert
create_alert_content_always_failure(is_recovery) ==
    [subject |-> "[ALERT]", alert_type |-> "FAILURE",
     alert_color |-> "#dc3545"]

\* ServiceMonitor.create_alert_content: the kind of the content, as the
\* subject tag, the alert type of the text body and the colour of the
\* HTML body show it.  The rest of the texts (service name, status, host,
\* statistics, logs) does not depend on the kind.
create_alert_content(is_recovery) ==
    IF is_recovery
    THEN [subject |-> "[RECOVERY]", alert_type |-> "RECOVERY",
          alert_color |-> "#28a745"]
    ELSE [subject |-> "[ALERT]", alert_type |-> "FAILURE",
          alert_color |-> "#dc3545"]

NoContent == [subject |-> "", alert_type |-> "", alert_color |-> ""]

\* ServiceMonitor.run_check on the ledger st and the store f.  cfg holds
\* the configuration (cooldown, dry_run, webhooks: enable_webhooks and a
\* webhook_url), inp what the environment does in this cycle (probe,
\* outcomes of the SMTP attempts, hook, save) and the clock readings
\* (t_decide, tc, ts, ta).  The result tells what the cycle did, in
\* order (steps), and whether it raised.
run_check(st, f, cfg, inp) ==
    LET probed == check_service_status(inp.probe)
        is_active == probed.is_active
        none == [raised |-> TRUE, state |-> st, file |-> f,
                 is_active |-> is_active, status |-> probed.status,
                 decision |-> "Suppressed", content |-> NoContent,
                 email |-> NoEmail,
                 email_sent |-> FALSE, webhook |-> "none",
                 alert_sent |-> FALSE, steps |-> <<"probe">>]
    IN IF probed.raised THEN none
       ELSE IF ~IsLedger(st)
       THEN [none EXCEPT !.steps = <<"probe", "decide">>]
       ELSE
         LET should_alert == should_send_alert(st, is_active, cfg.cooldown,
                                               inp.t_decide)
             is_recovery == IsRecovery(st, is_active)
             email == IF should_alert
                      THEN send_email_alert(cfg.dry_run, retry_attempts,
                                            inp.outcomes)
                      ELSE NoEmail
             webhook == IF should_alert /\ cfg.webhooks
                        THEN send_webhook_alert(cfg.dry_run, inp.hook)
                        ELSE "none"
             alert_sent == should_alert /\ AlertSent(email.sent, webhook)
             new == update_state(st, is_active, alert_sent,
                                 inp.tc, inp.ts, inp.ta)
         IN [raised |-> inp.save # "ok",
             state |-> new,
             file |-> save_state(new, f, inp.save),
             is_active |-> is_active,
             status |-> probed.status,
             decision |-> Decision(should_alert, is_recovery),
             content |-> IF should_alert
                         THEN create_alert_content(is_recovery)
                         ELSE NoContent,
             email |-> email,
             email_sent |-> should_alert /\ email.sent,
             webhook |-> webhook,
             alert_sent |-> alert_sent,
             steps |-> <<"probe", "decide">>
                       \o (IF should_alert THEN <<"compose", "email">>
                           ELSE <<>>)
                       \o (IF should_alert /\ cfg.webhooks
                           THEN <<"webhook">> ELSE <<>>)
                       \o <<"update", "save">>
                       \o (IF inp.save = "ok" THEN <<"log">> ELSE <<>>)]

\* The ledgers a store may hold when the monitor starts, and the stores.
StoredLedgers ==
    [last_check : {isoformat(0)},
     last_status : {"None", "True", "False"},
     last_alert_time : Stamps,
     consecutive_failures : 0..MaxFailures,
     last_success_time : {None}]

Stores ==
    {AbsentFile, CorruptFile, UnreadableFile, InvalidFile}
        \cup {JsonFile(l) : l \in StoredLedgers}

\* The monitor constructed on any store, about to run one cycle.
CycleInit ==
    /\ file \in Stores
    /\ state = load_state(file)
    /\ now \in 0..MaxTime
    /\ pc = "cycle"
    /\ once = TRUE
    /\ alert_cooldown = MaxCooldown
    /\ dry_run \in BOOLEAN
    /\ op = "init"
    /\ last = NoCycle
    /\ outage = NoOutage
    /\ synced = FALSE
    /\ \E webhooks \in BOOLEAN : report = [webhooks |-> webhooks]

\* One run_check, everything it did kept in report.
CycleRun ==
    /\ pc = "cycle"
    /\ \E probe \in Probes, save \in SaveResults,
          ta \in now..Min(now + MaxStep, MaxTime) :
         LET cfg == [cooldown |-> alert_cooldown, dry_run |-> dry_run,
                     webhooks |-> report.webhooks]
             alerting == IsLedger(state) /\
                 should_send_alert(state, check_service_status(probe).is_active,
                                   alert_cooldown, now)
         IN \E outcomes \in Transport(alerting /\ ~dry_run),
               hook \in (IF alerting /\ report.webhooks /\ ~dry_run
                         THEN Hooks ELSE {"ok"}) :
              LET inp == [probe |-> probe, outcomes |-> outcomes,
                          hook |-> hook, save |-> save, t_decide |-> now,
                          tc |-> ta, ts |-> ta, ta |-> ta]
                  out == run_check(state, file, cfg, inp)
              IN /\ report' = [webhooks |-> report.webhooks, pre |-> state,
                               store |-> file, inp |-> inp, cfg |-> cfg,
                               out |-> out]
                 /\ state' = out.state
                 /\ file' = out.file
                 /\ now' = IF out.raised /\ ~IsLedger(state) THEN now ELSE ta
    /\ pc' = "cycled"
    /\ op' = "cycle"
    /\ UNCHANGED <<once, alert_cooldown, dry_run, last, outage, synced>>

CycleNext == CycleRun

CycleSpec == CycleInit /\ [][CycleNext]_vars

\* ------------------------------------------------------ the store alone
\* Every ledger value: each timestamp null or set, last_status null, up or
\* down, any count.
AllLedgers ==
    [last_check : Stamps,
     last_status : {"None", "True", "False"},
     last_alert_time : Stamps,
     consecutive_failures : 0..MaxFailures,
     last_success_time : Stamps]

\* A StateManager holding any ledger, its store not yet written.
StoreInit ==
    /\ state \in AllLedgers
    /\ file \in {AbsentFile, CorruptFile}
    /\ now = 0
    /\ pc = "store"
    /\ once = TRUE
    /\ alert_cooldown = MaxCooldown
    /\ dry_run = FALSE
    /\ op = "init"
    /\ last = NoCycle
    /\ outage = NoOutage
    /\ synced = FALSE
    /\ report = NoReport

\* save_state, then a second StateManager constructed on the same file.
SaveLoad ==
    /\ pc = "store"
    /\ file' = save_state(state, file, "ok")
    /\ state' = load_state(file')
    /\ report' = [saved |-> state, loaded |-> state']
    /\ pc' = "loaded"
    /\ op' = "save_load"
    /\ synced' = TRUE
    /\ UNCHANGED <<now, once, alert_cooldown, dry_run, last, outage>>

StoreNext == SaveLoad

StoreSpec == StoreInit /\ [][StoreNext]_vars

\* ------------------------------------------------- the dispatcher alone
\* send_email_alert taken by itself: any dry-run flag, any configured
\* retry_attempts, any behaviour of the transport over the attempts.
DispatchInit ==
    /\ state = FreshState
    /\ file = AbsentFile
    /\ now = 0
    /\ pc = "dispatch"
    /\ once = FALSE
    /\ alert_cooldown = 0
    /\ dry_run \in BOOLEAN
    /\ op = "init"
    /\ last = NoCycle
    /\ outage = NoOutage
    /\ synced = FALSE
    /\ \E attempts \in 0..MaxAttempts,
          outcomes \in [1..MaxAttempts -> BOOLEAN] :
         report = [attempts |-> attempts, outcomes |-> outcomes,
                   result |-> [sent |-> FALSE, tries |-> 0, errors |-> 0,
                               sleeps |-> <<>>]]

\* One call of send_email_alert
DispatchSend ==
    /\ pc = "dispatch"
    /\ report' = [report EXCEPT !.result =
                     send_email_alert(dry_run, report.attempts,
                                      report.outcomes)]
    /\ pc' = "dispatched"
    /\ op' = "send_email_alert"
    /\ UNCHANGED <<state, file, now, once, alert_cooldown, dry_run, last,
                   outage, synced>>

DispatchNext == DispatchSend

DispatchSpec == DispatchInit /\ [][DispatchNext]_vars

\* ---------------------------------------------------------------- claims
\* C1: on a ledger whose last_status is unknown or up, a down observation
\* is decided RaiseFailure, whatever last_alert_time, consecutive_failures
\* and the cooldown are.
C1_FreshFailureRaises ==
    (op = "policy_down" /\ state.last_status \in {"None", "True"})
        => last.decision = "RaiseFailure"

\* C1 witness: last_status up, an alert recorded within the cooldown, and
\* the down observation is raised all the same.
C1_Witness ==
    /\ op = "policy_down"
    /\ state.last_status = "True"
    /\ state.last_alert_time # None
    /\ now - fromisoformat(state.last_alert_time) <= alert_cooldown
    /\ state.consecutive_failures > 0
    /\ last.decision = "RaiseFailure"

\* C2: on an up observation an alert is decided exactly when last_status
\* is down, and it is RaiseRecovery; last_status up or unknown gives
\* Suppressed; a down observation never gives RaiseRecovery.
C2_RecoveryOnlyFromDown ==
    /\ op = "policy_up" =>
          /\ (last.decision # "Suppressed") <=> (state.last_status = "False")
          /\ state.last_status = "False" => last.decision = "RaiseRecovery"
          /\ state.last_status \in {"None", "True"}
                => last.decision = "Suppressed"
    /\ op = "policy_down" => last.decision # "RaiseRecovery"

\* C2 witness: an up observation on a ledger that says down.
C2_Witness ==
    /\ op = "policy_up"
    /\ state.last_status = "False"
    /\ last.decision = "RaiseRecovery"

\* C3: last_status down with a last_alert_time, observation down: the
\* decision is RaiseFailure exactly when now - last_alert_time exceeds
\* the cooldown, and Suppressed otherwise, the boundary included.
C3_CooldownIsStrict ==
    (op = "policy_down" /\ state.last_status = "False"
        /\ state.last_alert_time # None)
        => /\ (last.decision = "RaiseFailure") <=>
                (now - fromisoformat(state.last_alert_time) > alert_cooldown)
           /\ (last.decision = "Suppressed") <=>
                (now - fromisoformat(state.last_alert_time) <= alert_cooldown)

\* C3 witness: exactly one cooldown after the last alert, suppressed.
C3_Witness ==
    /\ op = "policy_down"
    /\ state.last_status = "False"
    /\ state.last_alert_time # None
    /\ alert_cooldown > 0
    /\ now - fromisoformat(state.last_alert_time) = alert_cooldown
    /\ last.decision = "Suppressed"


\* C4: observation down, last_status down and no last_alert_time: the
\* outage counts as never alerted and the cycle decides RaiseFailure.
C4_MissingStampRaises ==
    [][(op' = "run_check" /\ state.last_status = "False"
            /\ state.last_alert_time = None
            /\ state'.last_status = "False")
        => last'.decision = "RaiseFailure"]_vars

\* C5: eventual delivery, in the form a finite run refutes.  While the
\* monitor runs continuously through an outage for which no failure
\* alert has been delivered, the ledger never stands so that every later
\* down cycle is suppressed whatever the clock reads: some reading t from
\* now on makes should_send_alert raise, so a working transport can
\* still deliver.
C5_DeliveryStaysPossible ==
    (~once /\ state.last_status = "False" /\ outage.alerts = 0)
        => \E t \in now..(MaxTime + MaxCooldown + 1) :
               should_send_alert(state, FALSE, alert_cooldown, t)

\* C6: a cycle writes last_alert_time exactly when an alert was decided
\* and the mail dispatch reported success, and then to the clock reading
\* of the update; otherwise it keeps its value.  A dispatch that used up
\* its attempts is a False result, not an exception: the cycle goes on to
\* set last_check, last_status and consecutive_failures, and main() sees
\* it raise only when the save failed.
C6_AlertTimeOnlyOnDelivery ==
    [][op' = "run_check" =>
        LET sent == last'.decision # "Suppressed" /\ last'.email_sent
        IN /\ sent => state'.last_alert_time = isoformat(now')
           /\ ~sent => state'.last_alert_time = state.last_alert_time
           /\ last'.email_sent => last'.decision # "Suppressed"
           /\ state'.last_check # None
           /\ fromisoformat(state'.last_check) >= now
           /\ state'.last_status \in {"True", "False"}
           /\ state'.consecutive_failures =
                 IF state'.last_status = "True" THEN 0
                 ELSE state.consecutive_failures + 1
           /\ (pc' \in {"recover", "fatal"}) <=> ~synced'
      ]_vars

\* C6 witness: a failure alert was decided, every attempt failed, the
\* cycle completed and the alert time of an earlier alert is still there.
C6_Witness ==
    /\ op = "run_check"
    /\ ~dry_run
    /\ last.decision = "RaiseFailure"
    /\ ~last.email_sent
    /\ pc \in {"sleep", "exit"}
    /\ state.last_alert_time # None
    /\ state.last_check # state.last_alert_time
    /\ state.consecutive_failures = 1

\* C7: within one outage any two delivered failure alerts are more than
\* the cooldown apart: no failure alert is delivered in a cycle that
\* decides within the cooldown of the alert delivered before it in the
\* same outage.
C7_AlertsACooldownApart == ~outage.close

\* C7 as amended: two delivered failure alerts of one outage are more
\* than the cooldown apart unless, between them, the monitor was started
\* again on a store that did not hold the ledger recording the first (its
\* save had failed, or the store was removed).
C7_AlertsApartUnlessLedgerLost == outage.close => outage.lost

\* C7 witness: a second failure alert delivered in the same outage, past
\* the cooldown, on a ledger that was never lost.
C7_Witness ==
    /\ op = "run_check"
    /\ outage.alerts = 2
    /\ ~outage.lost
    /\ ~outage.close
    /\ last.decision = "RaiseFailure"
    /\ last.email_sent

\* C8: when the monitor is started again between two cycles and the save
\* of the cycle before succeeded (the store untouched since), the ledger
\* loaded equals the one that cycle left, field by field, and so the next
\* decision is the one the running monitor would have taken.
C8_RestartKeepsLedger ==
    [][(op' = "restart" /\ synced) =>
        /\ state'.last_check = state.last_check
        /\ state'.last_status = state.last_status
        /\ state'.last_alert_time = state.last_alert_time
        /\ state'.consecutive_failures = state.consecutive_failures
        /\ state'.last_success_time = state.last_success_time
        /\ \A h \in BOOLEAN, t \in now'..MaxTime :
              should_send_alert(state', h, alert_cooldown, t)
                  = should_send_alert(state, h, alert_cooldown, t)
      ]_vars

\* C8 witness: a restart during an outage, after a delivered alert and a
\* good save, still within the cooldown: the ledger loaded suppresses.
C8_Witness ==
    /\ op = "restart"
    /\ synced
    /\ outage.alerts = 1
    /\ state.last_status = "False"
    /\ state.last_alert_time # None
    /\ now - fromisoformat(state.last_alert_time) <= alert_cooldown
    /\ ~should_send_alert(state, FALSE, alert_cooldown, now)

\* C9: whenever last_status is up, consecutive_failures is 0, in the
\* ledger in memory and in the one the store would load.
C9_UpMeansNoFailures ==
    /\ state.last_status = "True" => state.consecutive_failures = 0
    /\ load_state(file).last_status = "True"
          => load_state(file).consecutive_failures = 0

\* C9 witness: an up cycle right after an outage, the count back at 0.
C9_Witness ==
    /\ op = "run_check"
    /\ state.last_status = "True"
    /\ last.decision = "RaiseRecovery"
    /\ state.consecutive_failures = 0
    /\ load_state(file) = state

\* C10: no check cycle, and no other step of a running monitor, clears a
\* last_alert_time that is set or moves it back; and a cycle whose save
\* succeeds does neither to the last_alert_time held in the store.
C10_AlertTimeMonotone ==
    [][/\ (op' # "restart" /\ state.last_alert_time # None) =>
            /\ state'.last_alert_time # None
            /\ fromisoformat(state'.last_alert_time)
                 >= fromisoformat(state.last_alert_time)
       /\ (op' = "run_check" /\ synced'
              /\ load_state(file).last_alert_time # None) =>
            /\ load_state(file').last_alert_time # None
            /\ fromisoformat(load_state(file').last_alert_time)
                 >= fromisoformat(load_state(file).last_alert_time)
      ]_vars

\* C10 witness: a recovery alert delivered later than the failure alert
\* whose time it replaces.
C10_Witness ==
    /\ op = "run_check"
    /\ last.decision = "RaiseRecovery"
    /\ last.email_sent
    /\ state.last_alert_time = isoformat(now)
    /\ state.last_success_time # None
    /\ now > 0

\* C11: after any run of check cycles on the ledger the fresh start
\* gave, consecutive_failures is the number of down cycles since the last
\* up cycle (since the start, if there was none), whether or not alerts
\* were decided or delivered: 1 and last_status down after a down cycle
\* on the fresh ledger, 0 with last_success_time set after an up cycle.
C11_CountsDownCycles ==
    /\ ~outage.reloaded => state.consecutive_failures = outage.downs
    /\ (op = "run_check" /\ state.last_status = "True") =>
          /\ state.consecutive_failures = 0
          /\ state.last_success_time # None
    /\ (op = "run_check" /\ state.last_status = "False"
            /\ ~outage.reloaded) => outage.downs >= 1

\* C11 witness: the second down cycle in a row, suppressed after a first
\* one whose alert was delivered, counted all the same.
C11_Witness ==
    /\ op = "run_check"
    /\ ~outage.reloaded
    /\ outage.alerts = 1
    /\ last.decision = "Suppressed"
    /\ state.last_status = "False"
    /\ state.consecutive_failures = 2

\* The first attempt of a dispatch that goes through, 0 when none does.
FirstSuccess(attempts, outcomes) ==
    IF \E i \in 1..attempts : outcomes[i]
    THEN CHOOSE i \in 1..attempts :
             outcomes[i] /\ \A j \in 1..(i - 1) : ~outcomes[j]
    ELSE 0

C13_ExhaustsAttempts ==
    (op = "send_email_alert" /\ ~dry_run /\ report.attempts >= 1
        /\ \A i \in 1..report.attempts : ~report.outcomes[i]) =>
        LET r == report.result
        IN /\ ~r.sent
           /\ r.tries = report.attempts
           /\ r.errors = report.attempts
           /\ Len(r.sleeps) = report.attempts - 1
           /\ \A i \in 1..(report.attempts - 1) :
                 r.sleeps[i] = retry_delay * (2 ^ (i - 1))

\* C13 witness: the largest configured retry count, no attempt succeeding.
C13_Witness ==
    /\ op = "send_email_alert"
    /\ ~dry_run
    /\ report.attempts = MaxAttempts
    /\ \A i \in 1..MaxAttempts : ~report.outcomes[i]
    /\ ~report.result.sent
    /\ Len(report.result.sleeps) = MaxAttempts - 1

\* C14: in dry-run mode the dispatcher reports success with no transport
\* attempt and no backoff sleep, and the cycle records the alert as sent
\* (last_alert_time stamped), with the same ledger, store and alert_sent
\* flag as a cycle whose first real delivery attempt succeeds.
AllDelivered == [i \in 1..retry_attempts |-> TRUE]

C14_DryRunCountsAsDelivered ==
    (op = "cycle" /\ dry_run /\ report.out.decision # "Suppressed") =>
        LET real == run_check(report.pre, report.store,
                              [report.cfg EXCEPT !.dry_run = FALSE],
                              [report.inp EXCEPT !.outcomes = AllDelivered])
        IN /\ report.out.email = [sent |-> TRUE, tries |-> 0,
                                  errors |-> 0, sleeps |-> <<>>]
           /\ report.out.alert_sent
           /\ state.last_alert_time = isoformat(report.inp.ta)
           /\ real.email.sent /\ real.email.tries = 1
           /\ real.state = state
           /\ real.file = file
           /\ real.alert_sent = report.out.alert_sent

C14_Witness ==
    /\ op = "cycle" /\ dry_run
    /\ report.out.decision = "RaiseFailure"
    /\ report.pre.last_alert_time = None
    /\ state.last_alert_time = isoformat(report.inp.ta)
    /\ report.out.email.tries = 0

\* C15: with webhooks enabled and a decision other than Suppressed, the
\* webhook follows the primary dispatch whether that one succeeded or
\* failed; whatever the webhook comes to, the alert_sent flag is the
\* primary's result, so a failed primary with a successful webhook leaves
\* last_alert_time as it was.
C15_WebhookNeverCounts ==
    (op = "cycle" /\ report.webhooks /\ report.out.decision # "Suppressed") =>
        /\ \E i \in 1..(Len(report.out.steps) - 1) :
              /\ report.out.steps[i] = "email"
              /\ report.out.steps[i + 1] = "webhook"
        /\ report.out.webhook # "none"
        /\ report.out.alert_sent = report.out.email.sent
        /\ \A h \in Hooks :
              LET other == run_check(report.pre, report.store, report.cfg,
                                     [report.inp EXCEPT !.hook = h])
              IN /\ other.alert_sent = report.out.alert_sent
                 /\ other.email = report.out.email
                 /\ other.state = state
        /\ ~report.out.email.sent =>
              state.last_alert_time = report.pre.last_alert_time

C15_Witness ==
    /\ op = "cycle" /\ report.webhooks /\ ~dry_run
    /\ report.out.decision # "Suppressed"
    /\ ~report.out.email.sent
    /\ report.out.webhook = "sent"
    /\ report.pre.last_alert_time # None
    /\ state.last_alert_time = report.pre.last_alert_time

\* C16: a timeout or an execution error of the probe is never raised; it
\* gives is_active false with status "timeout" or "error: <detail>", and
\* the cycle does all that it does for a service seen down: same decision,
\* same dispatch, same ledger, consecutive_failures one more and
\* last_status down.
C16_ProbeFailureIsDown ==
    /\ \A p \in Probes : ~check_service_status(p).raised
    /\ check_service_status("timeout") =
           [is_active |-> FALSE, status |-> "timeout", raised |-> FALSE]
    /\ check_service_status("error") =
           [is_active |-> FALSE, status |-> "error: detail", raised |-> FALSE]
    /\ (op = "cycle" /\ report.inp.probe \in {"timeout", "error"}) =>
          LET down == run_check(report.pre, report.store, report.cfg,
                                [report.inp EXCEPT !.probe = "inactive"])
          IN /\ ~report.out.is_active
             /\ [report.out EXCEPT !.status = "inactive"] = down
             /\ IsLedger(report.pre) =>
                   /\ state.consecutive_failures =
                          report.pre.consecutive_failures + 1
                   /\ state.last_status = "False"

C16_Witness ==
    /\ op = "cycle" /\ report.inp.probe = "timeout"
    /\ report.pre.last_status = "True"
    /\ report.out.decision = "RaiseFailure"
    /\ report.out.status = "timeout"
    /\ state.last_status = "False"
    /\ state.consecutive_failures = report.pre.consecutive_failures + 1

\* C17: whatever the store holds (absent, unreadable, not parseable, or
\* parseable without the ledger's fields), loading gives the zero-value
\* ledger and the check cycle that follows runs to completion.
C17_LoadNeverFails ==
    /\ (op = "init" /\ file.kind # "json") => state = FreshState
    /\ (op = "cycle" /\ report.store.kind # "json"
            /\ report.inp.save = "ok") =>
          /\ report.pre = FreshState
          /\ ~report.out.raised
          /\ report.out.steps[Len(report.out.steps)] = "log"

\* C18: for every ledger value, saving it and loading from the same store
\* gives a ledger equal to it in all five fields, null timestamps
\* included.
C18_RoundTrip ==
    op = "save_load" =>
        /\ file.kind = "json"
        /\ report.loaded.last_check = report.saved.last_check
        /\ report.loaded.last_status = report.saved.last_status
        /\ report.loaded.last_alert_time = report.saved.last_alert_time
        /\ report.loaded.consecutive_failures =
               report.saved.consecutive_failures
        /\ report.loaded.last_success_time = report.saved.last_success_time
        /\ DOMAIN report.loaded = DOMAIN report.saved
        /\ state = report.saved

C18_Witness ==
    /\ op = "save_load"
    /\ report.saved.last_status = "False"
    /\ report.saved.last_alert_time = None
    /\ report.saved.last_check # None
    /\ report.saved.consecutive_failures = MaxFailures
    /\ report.loaded = report.saved

\* C19: a cycle whose save fails is not fatal in either mode: single-shot
\* mode returns normally and continuous mode goes on to the next cycle.
C19_SaveFailureNotFatal ==
    (op = "run_check" /\ ~synced) =>
        IF once THEN pc = "exit" ELSE pc \in {"sleep", "recover"}

\* C20: in continuous mode a cycle that raises is followed by the sleep
\* of the recovery delay (60, not the check interval), a cycle that
\* returns by the sleep of the check interval; the loop never ends on a
\* cycle, and from either sleep a further cycle starts unless the
\* operator interrupts.
C20_AfterContinuousCycle ==
    (op' = "run_check" /\ ~once) =>
        /\ pc' \in {"sleep", "recover"}
        /\ (pc' = "recover") = ~synced'
        /\ pc' = "recover" => last'.sleep = 60
        /\ pc' = "sleep" => last'.sleep = check_interval

C20_LoopNeverDies ==
    /\ [][C20_AfterContinuousCycle]_vars
    /\ [][(~once /\ pc \in {"sleep", "recover"} /\ pc' # pc) =>
              pc' \in {"check", "stopped", "interrupted"}]_vars
    /\ (~once /\ pc \in {"sleep", "recover"}) ~>
           (pc \in {"check", "stopped", "interrupted"})

C20_Witness ==
    /\ op = "run_check" /\ ~once
    /\ pc = "recover"
    /\ ~synced
    /\ last.sleep = recovery_delay
    /\ state.last_check # None

\* C21: in continuous mode an operator interrupt ends the loop cleanly
\* ('Monitor stopped by user' logged, nothing escapes) wherever it
\* arrives: in a cycle, in the sleep between cycles or in the recovery
\* sleep after a failed cycle.
C21_InterruptEndsCleanly ==
    [][(op' = "interrupt" /\ pc \in {"check", "sleep", "recover"}) =>
          pc' = "stopped"]_vars

\* C22: a cycle that runs to completion changes the ledger once, by one
\* update_state that comes after the decision and after the dispatch; the
\* decision is the policy's on the ledger as it was before the cycle, and
\* last_check and last_status are set whether or not an alert was decided
\* or delivered.
C22_OneUpdateAfterDecision ==
    (op = "cycle" /\ ~report.out.raised) =>
        LET steps == report.out.steps
            updates == {i \in DOMAIN steps : steps[i] = "update"}
        IN /\ Cardinality(updates) = 1
           /\ \A i \in DOMAIN steps, u \in updates :
                 steps[i] \in {"probe", "decide", "compose", "email",
                               "webhook"} => i < u
           /\ \E i \in DOMAIN steps : steps[i] = "decide"
           /\ report.out.decision =
                 Decision(should_send_alert(report.pre, report.out.is_active,
                                            report.cfg.cooldown,
                                            report.inp.t_decide),
                          IsRecovery(report.pre, report.out.is_active))
           /\ state = update_state(report.pre, report.out.is_active,
                                   report.out.alert_sent, report.inp.tc,
                                   report.inp.ts, report.inp.ta)
           /\ state.last_check = isoformat(report.inp.tc)
           /\ state.last_status = StatusOf(report.out.is_active)
           /\ file = JsonFile(state)

C22_Witness ==
    /\ op = "cycle" /\ ~report.out.raised
    /\ report.out.decision = "Suppressed"
    /\ report.pre.last_status = "None"
    /\ report.pre.last_check # None
    /\ state.last_status = "True"
    /\ state.last_check # report.pre.last_check

\* C23: the ledger a cycle decides from is the store's current content:
\* when an operator removes the store between two cycles of a running
\* monitor, the cycle that starts next decides from the zero-value ledger.
C23_DecidesFromStore ==
    [][(op = "remove" /\ pc \in {"sleep", "recover"} /\ op' = "wake") =>
          /\ pc' = "check"
          /\ state' = load_state(file')
          /\ state' = FreshState]_vars

\* C24: a cycle that observes up on any ledger whose last_status is up
\* dispatches nothing, leaves last_alert_time as it was and leaves
\* consecutive_failures at 0; the ledger it leaves is again one whose
\* last_status is up, and a further such cycle keeps both so.
C24_UpOnUpIsIdle ==
    (op = "cycle" /\ report.pre.last_status = "True"
        /\ report.out.is_active) =>
        LET again == run_check(state, file, report.cfg, report.inp)
        IN /\ report.out.decision = "Suppressed"
           /\ report.out.email = NoEmail
           /\ report.out.webhook = "none"
           /\ \A i \in DOMAIN report.out.steps :
                 report.out.steps[i] \notin {"compose", "email", "webhook"}
           /\ state.last_alert_time = report.pre.last_alert_time
           /\ state.consecutive_failures = 0
           /\ state.last_status = "True"
           /\ again.decision = "Suppressed"
           /\ again.email = NoEmail
           /\ again.state.last_alert_time = report.pre.last_alert_time
           /\ again.state.consecutive_failures = 0
           /\ again.state.last_status = "True"

C24_Witness ==
    /\ op = "cycle" /\ report.out.is_active
    /\ report.pre.last_status = "True"
    /\ report.pre.last_alert_time # None
    /\ report.pre.consecutive_failures > 0
    /\ report.out.decision = "Suppressed"
    /\ state.last_alert_time = report.pre.last_alert_time
    /\ state.consecutive_failures = 0

Dispatches(out) ==
    Cardinality({i \in DOMAIN out.steps : out.steps[i] = "email"})

\* C26: a cycle calls the primary dispatcher at most once, and once
\* exactly when its decision is not Suppressed.  After a down cycle whose
\* failure alert was delivered, a down cycle inside the cooldown
\* dispatches nothing and the up cycle after it dispatches once, the
\* recovery: one dispatch per transition, not one per check.
C26_OneDispatchPerTransition ==
    /\ op = "cycle" =>
          /\ Dispatches(report.out) <= 1
          /\ Dispatches(report.out) = 1 <=>
                 report.out.decision # "Suppressed"
    /\ (op = "cycle" /\ report.out.decision = "RaiseFailure"
            /\ report.out.email_sent) =>
          /\ Dispatches(report.out) = 1
          /\ \A t2 \in report.inp.ta..(report.inp.ta + report.cfg.cooldown) :
             \A t3 \in t2..(t2 + MaxStep) :
                LET second == run_check(state, file, report.cfg,
                                 [report.inp EXCEPT !.probe = "inactive",
                                     !.t_decide = t2, !.tc = t2, !.ts = t2,
                                     !.ta = t2])
                    third == run_check(second.state, second.file, report.cfg,
                                 [report.inp EXCEPT !.probe = "active",
                                     !.t_decide = t3, !.tc = t3, !.ts = t3,
                                     !.ta = t3])
                IN /\ second.decision = "Suppressed"
                   /\ Dispatches(second) = 0
                   /\ third.decision = "RaiseRecovery"
                   /\ Dispatches(third) = 1

C26_Witness ==
    /\ op = "cycle" /\ ~dry_run
    /\ report.inp.probe = "inactive"
    /\ report.pre.last_status = "True"
    /\ report.out.decision = "RaiseFailure"
    /\ report.out.email_sent
    /\ report.out.email.tries = 2
    /\ Dispatches(report.out) = 1
    /\ state.last_alert_time = isoformat(report.inp.ta)

\* C27: the content of a dispatched alert matches the observed health: it
\* is a RECOVERY alert exactly when the service is seen up (and then
\* last_status was down), a FAILURE alert exactly when it is seen down.
C27_ContentMatchesHealth ==
    /\ (op = "cycle" /\ report.out.decision # "Suppressed") =>
          /\ report.out.content.alert_type \in {"RECOVERY", "FAILURE"}
          /\ report.out.content.alert_type = "RECOVERY" <=>
                 report.out.is_active
          /\ report.out.content.alert_type = "FAILURE" <=>
                 ~report.out.is_active
          /\ report.out.content.subject = "[RECOVERY]" <=>
                 report.out.is_active
          /\ report.out.content.subject = "[ALERT]" <=>
                 ~report.out.is_active
          /\ report.out.is_active => report.pre.last_status = "False"
          /\ report.out.decision = "RaiseRecovery" <=>
                 report.out.content.alert_type = "RECOVERY"
    /\ (op = "cycle" /\ report.out.decision = "Suppressed") =>
          report.out.content = NoContent

C27_Witness ==
    /\ op = "cycle" /\ report.inp.probe = "active"
    /\ report.pre.last_status = "False"
    /\ report.out.decision = "RaiseRecovery"
    /\ report.out.content.alert_type = "RECOVERY"
    /\ report.out.content.subject = "[RECOVERY]"

\* C28, as stated: the recovery is dispatched in the first up cycle after
\* an outage, whether or not a failure alert was delivered, and in no
\* other cycle; the cycle sets last_status to up even when the dispatch
\* fails, so no later up cycle raises it again.
C28_RecoveryOncePerOutage ==
    [][op' = "run_check" =>
          /\ (state'.last_status = "True" /\ outage.seen = "down") =>
                 last'.decision = "RaiseRecovery"
          /\ last'.decision = "RaiseRecovery" =>
                 /\ state'.last_status = "True"
                 /\ outage.seen = "down"]_vars

\* C28, amended: the same for every cycle that runs on the ledger the
\* cycle before it left, that is, unless the monitor was started again in
\* between on a store holding another ledger.
C28_RecoveryOncePerOutageUnlessStale ==
    [][(op' = "run_check" /\ ~outage.stale) =>
          /\ (state'.last_status = "True" /\ outage.seen = "down") =>
                 last'.decision = "RaiseRecovery"
          /\ last'.decision = "RaiseRecovery" =>
                 /\ state'.last_status = "True"
                 /\ outage.seen = "down"
          /\ (state'.last_status = "True" /\ outage.seen # "down") =>
                 last'.decision = "Suppressed"]_vars

C28_Witness ==
    /\ op = "run_check" /\ ~dry_run
    /\ last.decision = "RaiseRecovery"
    /\ ~last.email_sent
    /\ state.last_status = "True"
    /\ state.last_alert_time = None
    /\ state.consecutive_failures = 0
    /\ outage.seen = "up"
    /\ ~outage.stale

====
